---------------------------- MODULE Spec2Model ----------------------------
(***************************************************************************)
(* Model of package v8 (the Worker binding to the V8 engine) of            *)
(* espians/source: the Go host side (Worker, the instance registry, the    *)
(* once-only bootstrap) and the C++ side (struct worker_s, worker_send,    *)
(* worker_send_sync, worker_load, the $recv/$send boundary functions).     *)
(*                                                                         *)
(* Threads are goroutines calling the Worker's methods.  A method is cut   *)
(* into steps at the places where it can block or where another thread can *)
(* observe it: taking a lock, entering and leaving a native call.          *)
(***************************************************************************)
EXTENDS Integers, Sequences, FiniteSets, TLC

\* ------------------------------------------------------------------ bounds
NumThreads == 2
NumWorkers == 2

Threads == 1..NumThreads
Workers == 1..NumWorkers
\* ids nextID can hand out before the model stops creating instances
IDs     == 1..(NumWorkers + 1)

\* the nil pointer, an unheld lock, a value that is absent
NULL == 0

\* ----------------------------------------------------------------- strings
NoErr          == "<nil>"
ErrNoRecv      == "v8worker: callback not registered with $recv"
MsgNoRecvSync  == "v8worker: callback not registered with $recvSync"
MsgNonString   == "v8worker: non-string return value"
MsgSyncNil     == "v8: Worker.HandleSendSync is nil"
ErrNoGetModule == "v8: GetModuleSource needs to be set before any methods are called"

\* ------------------------------------------------------------- JavaScript
\* The scripts and callback functions the model feeds the engine.  The
\* engine is opaque: a script is known by what it does at the boundary.
SrcSyntaxErr == "1+"
SrcBenign    == "1+1"
SrcThrow     == "throw new Error('x')"
SrcLoop      == "while(true){}"
SrcSend      == "$send('m')"
SrcSendSync  == "$sendSync('m')"
SrcRecvOk    == "$recv(function(m){})"
SrcRecvLoop  == "$recv(function(m){while(true){}})"
SrcRecvThrow == "$recv(function(m){throw new Error('x')})"
SrcRecvSend  == "$recv(function(m){$send(m)})"
SrcSyncPong  == "$recvSync(function(m){return 'pong'})"
SrcSyncNum   == "$recvSync(function(m){return 1})"
SrcSyncEcho  == "$recvSync(function(m){return $sendSync(m)})"
SrcSyncThrow == "$recvSync(function(m){throw new Error('x')})"
SrcSyncLoop  == "$recvSync(function(m){while(true){}})"

\* What a piece of JavaScript does when run: [k |-> kind, a |-> argument].
\*   nop      runs to completion, value undefined
\*   throw    raises an uncaught exception
\*   loop     never returns by itself
\*   send     calls $send, value undefined
\*   sendSync calls $sendSync and returns what the host answered
\*   recv     calls $recv(a)       recvSync  calls $recvSync(a)
\*   str      returns the string a num  returns a number
Code(k, a) == [k |-> k, a |-> a]

FnBody(fn) ==
  CASE fn = "fnOk"    -> Code("nop", "")
    [] fn = "fnLoop"  -> Code("loop", "")
    [] fn = "fnThrow" -> Code("throw", "")
    [] fn = "fnSend"  -> Code("send", "")
    [] fn = "fnPong"  -> Code("str", "pong")
    [] fn = "fnNum"   -> Code("num", "")
    [] fn = "fnEcho"  -> Code("sendSync", "")

ScriptBody(src) ==
  CASE src = SrcBenign    -> Code("nop", "")
    [] src = SrcThrow     -> Code("throw", "")
    [] src = SrcLoop      -> Code("loop", "")
    [] src = SrcSend      -> Code("send", "")
    [] src = SrcSendSync  -> Code("sendSync", "")
    [] src = SrcRecvOk    -> Code("recv", "fnOk")
    [] src = SrcRecvLoop  -> Code("recv", "fnLoop")
    [] src = SrcRecvThrow -> Code("recv", "fnThrow")
    [] src = SrcRecvSend  -> Code("recv", "fnSend")
    [] src = SrcSyncPong  -> Code("recvSync", "fnPong")
    [] src = SrcSyncNum   -> Code("recvSync", "fnNum")
    [] src = SrcSyncEcho  -> Code("recvSync", "fnEcho")
    [] src = SrcSyncThrow -> Code("recvSync", "fnThrow")
    [] src = SrcSyncLoop  -> Code("recvSync", "fnLoop")

\* Script::Compile: empty exactly for source that does not parse.
Compiles(src) == src # SrcSyntaxErr


\* ------------------------------------------------------ exception formatter
\* A captured failure (v8::TryCatch): the exception's string, its stack trace
\* ("" when there is none) and its message: NoMessage, or the location
\* [resource, line, sourceline, start, end].
NoMessage == [resource |-> "", line |-> 0, sourceline |-> "", start |-> 0, end |-> 0]

\* (mutant) a loop that appends nothing.
RepNone(s, n) == ""

\* for (int i = 0; i < n; i++) out.append(s)
RECURSIVE Rep(_, _)
Rep(s, n) == IF n <= 0 THEN "" ELSE s \o Rep(s, n - 1)

ToCString(value) == IF value = "<empty>" THEN "<v8worker: string conversion failed>" ELSE value

ExceptionString(try_catch) ==
  LET exception_string == ToCString(try_catch.exception)
      message == try_catch.message
  IN  IF message = NoMessage
        THEN exception_string \o "\n"
        ELSE ToCString(message.resource) \o ":" \o ToString(message.line) \o "\n"
             \o ToCString(message.sourceline) \o "\n"
             \o Rep(" ", message.start) \o Rep("^", message.end - message.start) \o "\n"
             \o (IF Len(try_catch.stack_trace) > 0
                   THEN ToCString(try_catch.stack_trace)
                   ELSE exception_string)
             \o "\n"

\* CopyString: malloc(value.length()) and strcpy, which copies the bytes of
\* value and a terminating NUL, length + 1 bytes in all: the copy reads back
\* as value, and its NUL is written one byte past the block asked for.
CopyString(value) == value

\* The byte past the block is allocator padding unless the block is one the
\* allocator hands out without padding (sizes are rounded up to a multiple of
\* 8); written outside the padding it corrupts the heap.
Overruns(value) == Len(value) % 8 = 0

\* Whether the process dies of a CopyString: it may when the heap is corrupted.
CopyDies(value) == IF Overruns(value) THEN {TRUE, FALSE} ELSE {FALSE}

\* What the engine hands the TryCatch for the failures the scripts produce.
\* A terminated execution leaves no exception object and no message.
Caught(st, name, src) ==
  CASE st = "compile" ->
         [exception |-> "SyntaxError: Unexpected end of input", stack_trace |-> "",
          message |-> [resource |-> name, line |-> 1, sourceline |-> src,
                       start |-> 2, end |-> 3]]
    [] st = "throw" ->
         [exception |-> "Error: x", stack_trace |-> "Error: x\n    at " \o name,
          message |-> [resource |-> name, line |-> 1, sourceline |-> src,
                       start |-> 0, end |-> 1]]
    [] st = "term" ->
         [exception |-> "<empty>", stack_trace |-> "", message |-> NoMessage]

\* ------------------------------------------------------------------- state
VARIABLES
  mutex,      \* the registry lock: the thread holding it, or NULL
  nextID,     \* var nextID int32
  once,       \* sync.Once: "idle", "running" (v8_init in progress), "done"
  v8inits,    \* how many times v8_init has run
  registry,   \* map[int32]*instance: a function from the ids present
  instances,  \* the Go heap of instance structs, by address (= the id they got)
  wInstance,  \* Worker.instance, per Worker: an instance address or NULL
  wMutex,     \* Worker.mutex, per Worker: the thread holding it, or NULL
  cfg,        \* Worker's configuration fields, per Worker
  native,     \* the C++ heap of worker_s structs, by handle
  locker,     \* v8::Locker of each isolate: the thread inside, or NULL
  term,       \* each isolate's pending TerminateExecution request
  crashed,    \* the process has died (panic, segfault)
  pc,         \* per thread: where it is in the method it runs
  op,         \* per thread: the method it runs
  tw,         \* per thread: the Worker it runs the method on
  arg,        \* per thread: the script source (LoadScript) or "" otherwise
  li,         \* per thread: init's local i (an instance address)
  js,         \* per thread: the JavaScript it is running inside the engine
  ret,        \* per thread: what the method returned, [val, err]
  did         \* per thread, about its call: "js" it invoked a script function,
              \* "send" / "sendSync" its script called that boundary function
              \* and the dispatch returned, "host" it invoked a host callback,
              \* "late" it was made on a Worker already disposed

gvars == <<mutex, nextID, once, v8inits, registry, instances>>
wvars == <<wInstance, wMutex, cfg>>
nvars == <<native, locker, term>>
tvars == <<pc, op, tw, arg, li, js, ret, did>>
vars  == <<gvars, wvars, nvars, crashed, tvars>>

\* Thread t is at position p of its method, in a process that is alive.
At(t, p) == ~crashed /\ pc[t] = p

NoCode == Code("", "")
NoRet  == [val |-> "", err |-> ""]

\* A worker_s no one has allocated yet.
NoNative == [st |-> "none", id |-> NULL, last_exception |-> "",
             recv |-> "", recv_sync_handler |-> ""]

\* The configurations a Worker is given before its first method call: every
\* callback set, or none.
CfgFull == [EnablePrint |-> TRUE, GetModuleSource |-> "set",
            HandleSend |-> "set", HandleSendSync |-> "set"]
CfgBare == [EnablePrint |-> FALSE, GetModuleSource |-> "nil",
            HandleSend |-> "nil", HandleSendSync |-> "nil"]
Configs == {CfgFull, CfgBare}

\* The answer of the host's HandleSendSync callback.
HostResp == "resp"

\* The urls LoadModule is called with, and the host's GetModuleSource for
\* them: a module that runs, one that does not compile, one that throws, and
\* a url the host has no source for (it returns an error).
UrlOk      == "ok.js"
UrlSyntax  == "syntax.js"
UrlThrow   == "throw.js"
UrlMissing == "missing.js"
ModUrls    == {UrlOk, UrlSyntax, UrlThrow, UrlMissing}

Resolve(url) ==
  CASE url = UrlMissing -> [source |-> "", err |-> "not found"]
    [] url = UrlSyntax  -> [source |-> SrcSyntaxErr, err |-> NoErr]
    [] url = UrlThrow   -> [source |-> SrcThrow, err |-> NoErr]
    [] OTHER            -> [source |-> SrcBenign, err |-> NoErr]

\* The state after program start, the Workers configured by cf.
Start(cf) ==
  /\ mutex = NULL
  /\ nextID = 0
  /\ once = "idle"
  /\ v8inits = 0
  /\ registry = <<>>
  /\ instances = <<>>
  /\ wInstance = [w \in Workers |-> NULL]
  /\ wMutex = [w \in Workers |-> NULL]
  /\ cfg = cf
  /\ native = [h \in IDs |-> NoNative]
  /\ locker = [h \in IDs |-> NULL]
  /\ term = [h \in IDs |-> FALSE]
  /\ crashed = FALSE
  /\ pc = [t \in Threads |-> "idle"]
  /\ op = [t \in Threads |-> ""]
  /\ tw = [t \in Threads |-> NULL]
  /\ arg = [t \in Threads |-> ""]
  /\ li = [t \in Threads |-> NULL]
  /\ js = [t \in Threads |-> NoCode]
  /\ ret = [t \in Threads |-> NoRet]
  /\ did = [t \in Threads |-> {}]


\* ------------------------------------------------------------ Go: helpers
Methods == {"LoadScript", "LoadModule", "Send", "SendSync", "Terminate"}

\* (mutant) the registry lock still held after the map operation.
UnlockedNever(t) == t

\* mutex.Unlock() by thread t: the holder of the registry lock afterwards.
Unlocked(t) == NULL

\* (mutant) a map read that answers with the entry of the smallest key.
LookupFirst(id) ==
  IF registry = <<>> THEN NULL
  ELSE registry[CHOOSE k \in DOMAIN registry : \A j \in DOMAIN registry : k <= j]

\* getInstance's map read: registry[id], nil for an id that is not a key.
Lookup(id) == IF id \in DOMAIN registry THEN registry[id] ELSE NULL

\* w.instance.worker as thread t reads it.
Handle(t) == instances[wInstance[tw[t]]].worker

\* A thread is back in its caller: the call's record is dropped.
Return(t) ==
  /\ At(t, "done")
  /\ pc' = [pc EXCEPT ![t] = "idle"]
  /\ op' = [op EXCEPT ![t] = ""]
  /\ tw' = [tw EXCEPT ![t] = NULL]
  /\ arg' = [arg EXCEPT ![t] = ""]
  /\ li' = [li EXCEPT ![t] = NULL]
  /\ js' = [js EXCEPT ![t] = NoCode]
  /\ ret' = [ret EXCEPT ![t] = NoRet]
  /\ did' = [did EXCEPT ![t] = {}]
  /\ UNCHANGED <<gvars, wvars, nvars, crashed>>

\* dispose has run to its end on Worker w: its native context is released.
Disposed(w) ==
  /\ wInstance[w] # NULL
  /\ native[instances[wInstance[w]].worker].st = "released"

\* A thread calls method m of Worker w (a is LoadScript's source).  The call
\* is marked "late" when it is made after dispose has run on the Worker.
Begin(t, m, w, a) ==
  /\ At(t, "idle")
  /\ pc' = [pc EXCEPT ![t] = "lock"]
  /\ op' = [op EXCEPT ![t] = m]
  /\ tw' = [tw EXCEPT ![t] = w]
  /\ arg' = [arg EXCEPT ![t] = a]
  /\ did' = [did EXCEPT ![t] = IF Disposed(w) THEN {"late"} ELSE {}]
  /\ UNCHANGED <<gvars, wvars, nvars, crashed, li, js, ret>>

\* A call of one of the methods ms is in progress on Worker w.
InCall(w, ms) == \E u \in Threads : tw[u] = w /\ op[u] \in ms

\* The caller's side of "LoadScript is not threadsafe": LoadScript is called
\* on a Worker no other method runs on, and no method is called on a Worker
\* LoadScript runs on, Terminate excepted.
BeginLoad(t, w, a) ==
  /\ ~InCall(w, {"LoadScript", "LoadModule", "Send", "SendSync"})
  /\ Begin(t, "LoadScript", w, a)

BeginMsg(t, m, w) ==
  /\ ~InCall(w, {"LoadScript", "LoadModule"})
  /\ Begin(t, m, w, "")

\* Terminate called to stop the JavaScript that runs in Worker w: one call for
\* one run, none while a call is in progress or its request is pending.
BeginTerminate(t, w) ==
  /\ \E u \in Threads : tw[u] = w /\ pc[u] = "run" /\ ~term[Handle(u)]
  /\ ~InCall(w, {"Terminate"})
  /\ Begin(t, "Terminate", w, "")

\* (mutant) Send and SendSync entered without taking w.mutex.
MayLockUnlocked(t) == op[t] \in {"Send", "SendSync"} \/ wMutex[tw[t]] = NULL

\* sync.Mutex: Lock returns only when no thread holds the mutex.
MayLock(t) == wMutex[tw[t]] = NULL

\* (mutant) every method calls w.init().
CallsInitAlways(m) == TRUE

\* Whether method m calls w.init() after taking the lock: all but Terminate.
CallsInit(m) == m # "Terminate"

\* w.mutex.Lock(), the first statement of every method.
Lock(t) ==
  /\ At(t, "lock")
  /\ MayLock(t)
  /\ wMutex' = [wMutex EXCEPT ![tw[t]] = t]
  /\ pc' = [pc EXCEPT ![t] = IF CallsInit(op[t]) THEN "init" ELSE "term"]
  /\ UNCHANGED <<gvars, wInstance, cfg, nvars, crashed, op, tw, arg, li, js, ret, did>>

\* (mutant) LoadModule without the test of getModuleSource.
NoResolverNever(m, inst) == FALSE

\* LoadModule's test after init: if w.instance.getModuleSource == nil.
NoResolver(m, inst) == m = "LoadModule" /\ inst.getModuleSource = "nil"

\* What follows w.init() in the method thread t runs, i being w.instance:
\* LoadScript unlocks and goes on to the native call; Send and SendSync keep
\* the lock (their Unlock is deferred); LoadModule returns its error with the
\* lock still held when the instance has no getModuleSource.
AfterInit(t, i, insts) ==
  LET m == op[t] IN
  /\ pc' = [pc EXCEPT ![t] = IF NoResolver(m, insts[i]) THEN "done" ELSE "call"]
  /\ ret' = [ret EXCEPT ![t] =
              IF NoResolver(m, insts[i])
                THEN [val |-> "", err |-> ErrNoGetModule] ELSE @]
  /\ wMutex' = [wMutex EXCEPT ![tw[t]] =
              IF \/ m = "LoadScript"
                 \/ m = "LoadModule" /\ ~NoResolver(m, insts[i])
                THEN NULL ELSE @]

\* w.init() when w.instance is already set: it returns at once.
InitSkip(t) ==
  /\ At(t, "init")
  /\ wInstance[tw[t]] # NULL
  /\ AfterInit(t, wInstance[tw[t]], instances)
  /\ UNCHANGED <<gvars, wInstance, cfg, nvars, crashed, op, tw, arg, li, js, did>>

\* w.init(), w.instance nil: mutex.Lock().
InitLock(t) ==
  /\ At(t, "init")
  /\ wInstance[tw[t]] = NULL
  /\ mutex = NULL
  /\ nextID + 1 \in IDs
  /\ mutex' = t
  /\ pc' = [pc EXCEPT ![t] = "init_reg"]
  /\ UNCHANGED <<nextID, once, v8inits, registry, instances, wvars, nvars,
                 crashed, op, tw, arg, li, js, ret, did>>

\* (mutant) the id taken from the number of live entries.
FreshIDByCount == Cardinality(DOMAIN registry) + 1

\* The id the instance created now gets: nextID after nextID++.
FreshID == nextID + 1

\* w.init(), under the registry lock: nextID++, the instance is built from
\* the Worker's configuration and stored in the registry; mutex.Unlock().
InitRegister(t) ==
  LET w  == tw[t]
      id == FreshID
      i  == [getModuleSource |-> cfg[w].GetModuleSource,
             handleSend      |-> cfg[w].HandleSend,
             handleSendSync  |-> cfg[w].HandleSendSync,
             id              |-> id,
             worker          |-> NULL]
  IN
  /\ At(t, "init_reg")
  /\ nextID' = nextID + 1
  /\ instances' = (id :> i) @@ instances
  /\ registry' = (id :> id) @@ registry
  /\ mutex' = Unlocked(t)
  /\ li' = [li EXCEPT ![t] = id]
  /\ pc' = [pc EXCEPT ![t] = "init_once"]
  /\ UNCHANGED <<once, v8inits, wvars, nvars, crashed, op, tw, arg, js, ret, did>>

\* (mutant) v8_init called by every init, without the sync.Once.
OnceRunsEvery == TRUE

\* Whether once.Do runs its function for this caller: only the first does.
OnceRuns == once = "idle"

\* (mutant) a once.Do that lets callers pass while the function runs.
OncePassesAlways == TRUE

\* Whether once.Do lets a caller go on: not while another caller runs the
\* function.
OncePasses == once # "running"

\* once.Do: the first caller runs v8_init; a caller that arrives while it
\* runs waits for it; later callers pass.
OnceDo(t) ==
  /\ At(t, "init_once")
  /\ OncePasses
  /\ once' = IF OnceRuns THEN "running" ELSE once
  /\ pc' = [pc EXCEPT ![t] = IF OnceRuns THEN "v8_init" ELSE "init_native"]
  /\ UNCHANGED <<mutex, nextID, v8inits, registry, instances, wvars, nvars,
                 crashed, op, tw, arg, li, js, ret, did>>

\* C.v8_init() returns and once.Do marks itself done.
V8Init(t) ==
  /\ At(t, "v8_init")
  /\ v8inits' = v8inits + 1
  /\ once' = "done"
  /\ pc' = [pc EXCEPT ![t] = "init_native"]
  /\ UNCHANGED <<mutex, nextID, registry, instances, wvars, nvars,
                 crashed, op, tw, arg, li, js, ret, did>>

\* i.worker = C.worker_init(i.id, enablePrint); w.instance = i; and the rest
\* of the method up to its native call.
InitNative(t) ==
  LET i == li[t]
      insts == [instances EXCEPT ![i].worker = i]
  IN
  /\ At(t, "init_native")
  /\ native' = [native EXCEPT ![i] = [NoNative EXCEPT !.st = "live", !.id = instances[i].id]]
  /\ instances' = insts
  /\ wInstance' = [wInstance EXCEPT ![tw[t]] = i]
  /\ AfterInit(t, i, insts)
  /\ UNCHANGED <<mutex, nextID, once, v8inits, registry, cfg, locker, term,
                 crashed, op, tw, arg, li, js, did>>


\* ----------------------------------------------------- C++: the native side
FileName == "test.js"

\* JavaScript values as the binding sees them; Empty is an empty Local<Value>.
Undefined == [ty |-> "undefined", s |-> ""]
Number    == [ty |-> "number", s |-> ""]
Empty     == [ty |-> "empty", s |-> ""]
Str(s)    == [ty |-> "string", s |-> s]

\* How a run of JavaScript ended: "ok" with a value, "throw" (uncaught
\* exception) or "term" (terminated), both without a value.
Outcome(st, val) == [st |-> st, val |-> val]

\* The outcome of code that runs to its end without leaving the engine.
Eval(c) ==
  CASE c.k = "throw" -> Outcome("throw", Empty)
    [] c.k = "str"   -> Outcome("ok", Str(c.a))
    [] c.k = "num"   -> Outcome("ok", Number)
    [] OTHER         -> Outcome("ok", Undefined)

\* (mutant) a registration that drops what other scripts registered.
RegisteredAlone(nat, c) ==
  [nat EXCEPT !.recv = IF c.k = "recv" THEN c.a ELSE "",
              !.recv_sync_handler = IF c.k = "recvSync" THEN c.a ELSE ""]

\* Recv and RecvSync, the $recv and $recvSync functions: w->recv.Reset(func),
\* w->recv_sync_handler.Reset(func).
Registered(nat, c) ==
  CASE c.k = "recv"     -> [nat EXCEPT !.recv = c.a]
    [] c.k = "recvSync" -> [nat EXCEPT !.recv_sync_handler = c.a]
    [] OTHER            -> nat

\* The source line the engine reports for a failure of thread t's call.
SourceOf(t, nat) ==
  CASE op[t] = "Send"       -> nat.recv
    [] op[t] = "SendSync"   -> nat.recv_sync_handler
    [] op[t] = "LoadModule" -> Resolve(arg[t]).source
    [] OTHER                -> arg[t]

\* The resource name of the code thread t's call runs.
NameOf(t) == IF op[t] = "LoadModule" THEN arg[t] ELSE FileName

\* (mutant) a run of JavaScript reported as succeeded whatever its outcome.
StatusOk(out) == 0

\* The return of worker_load's and worker_send's run of JavaScript: on a caught
\* failure last_exception is overwritten and the status is 2, else 0.
Status(out) == IF out.st = "ok" THEN 0 ELSE 2

\* (mutant) the failure's text added to the text already there.
RecordedAppend(t, nat, out) ==
  IF Status(out) # 0
    THEN [nat EXCEPT !.last_exception =
            @ \o ExceptionString(Caught(out.st, NameOf(t), SourceOf(t, nat)))]
    ELSE nat

Recorded(t, nat, out) ==
  IF Status(out) # 0
    THEN [nat EXCEPT !.last_exception = ExceptionString(Caught(out.st, NameOf(t), SourceOf(t, nat)))]
    ELSE nat

\* (mutant) worker_send_sync without the IsString test.
SyncResponseRaw(val) == val.s

\* worker_send_sync's answer for the value its callback returned.
SyncResponse(val) == IF val.ty = "string" THEN val.s ELSE MsgNonString

\* The native function thread t is in returns (its Locker is released), nat
\* being the worker_s, out the outcome of the JavaScript it ran and tm the
\* isolate's termination request afterwards.  worker_load and worker_send
\* return a status; worker_send_sync returns a string, and reads the value
\* through the handle without looking whether it is empty.  Then the Go
\* method goes on: to getError on a non-zero status, else to its return
\* (Send's and SendSync's deferred Unlock).
Finish(t, h, nat, out, tm) ==
  LET m     == op[t]
      deref == m = "SendSync" /\ out.val = Empty
      r     == IF m = "SendSync" THEN 0 ELSE Status(out)
  IN
  \E die \in IF deref THEN {TRUE}
              ELSE IF m = "SendSync" THEN CopyDies(SyncResponse(out.val))
              ELSE {FALSE} :
    /\ native' = [native EXCEPT ![h] = IF m = "SendSync" THEN nat ELSE Recorded(t, nat, out)]
    /\ locker' = [locker EXCEPT ![h] = NULL]
    /\ term' = [term EXCEPT ![h] = tm]
    /\ js' = [js EXCEPT ![t] = NoCode]
    /\ crashed' = (crashed \/ die)
    /\ pc' = [pc EXCEPT ![t] = IF die THEN "dead" ELSE IF r # 0 THEN "geterr" ELSE "done"]
    /\ ret' = [ret EXCEPT ![t] =
                 IF die \/ r # 0 THEN @
                 ELSE IF m = "SendSync"
                   THEN [val |-> CopyString(SyncResponse(out.val)), err |-> NoErr]
                   ELSE [val |-> "", err |-> NoErr]]
    /\ wMutex' = [wMutex EXCEPT ![tw[t]] =
                 IF ~die /\ r = 0 /\ m \in {"Send", "SendSync"} THEN NULL ELSE @]

\* The engine runs code c for thread t, which holds the isolate's Locker.  A
\* pending termination request ends the run at once.  Code that calls $send or
\* $sendSync leaves the engine for the host's callback; a loop stays inside.
Exec(t, h, nat, c) ==
  IF term[h]
    THEN Finish(t, h, nat, Outcome("term", Empty), FALSE)
  ELSE IF c.k \in {"loop", "send", "sendSync"}
    THEN /\ pc' = [pc EXCEPT ![t] = IF c.k = "loop" THEN "run" ELSE "cb_lock"]
         /\ js' = [js EXCEPT ![t] = c]
         /\ native' = [native EXCEPT ![h] = nat]
         /\ locker' = [locker EXCEPT ![h] = t]
         /\ UNCHANGED <<term, crashed, ret, wMutex>>
  ELSE Finish(t, h, Registered(nat, c), Eval(c), FALSE)

\* Whether thread t may enter the isolate of handle h: Locker locker(isolate).
MayEnter(t, h) == locker[h] = NULL

\* worker_send(w, msg): without a $recv callback it sets last_exception and
\* returns 1, else it calls the callback.
CallSend(t) ==
  LET h == Handle(t)
      nat == native[h]
  IN
  /\ At(t, "call") /\ op[t] = "Send"
  /\ nat.st = "live"
  /\ MayEnter(t, h)
  /\ IF nat.recv = ""
       THEN /\ native' = [native EXCEPT ![h].last_exception = ErrNoRecv]
            /\ pc' = [pc EXCEPT ![t] = "geterr"]
            /\ UNCHANGED <<locker, term, js, crashed, ret, wMutex, did>>
       ELSE /\ Exec(t, h, nat, FnBody(nat.recv))
            /\ did' = [did EXCEPT ![t] = @ \cup {"js"}]
  /\ UNCHANGED <<gvars, wInstance, cfg, op, tw, arg, li>>

\* worker_send_sync(w, msg): without a $recvSync callback it answers the fixed
\* diagnostic, else it calls the callback.
CallSendSync(t) ==
  LET h == Handle(t)
      nat == native[h]
  IN
  /\ At(t, "call") /\ op[t] = "SendSync"
  /\ nat.st = "live"
  /\ MayEnter(t, h)
  /\ IF nat.recv_sync_handler = ""
       THEN /\ \E die \in CopyDies(MsgNoRecvSync) :
                 /\ crashed' = die
                 /\ pc' = [pc EXCEPT ![t] = IF die THEN "dead" ELSE "done"]
                 /\ ret' = [ret EXCEPT ![t] =
                      IF die THEN @
                      ELSE [val |-> CopyString(MsgNoRecvSync), err |-> NoErr]]
                 /\ wMutex' = [wMutex EXCEPT ![tw[t]] = IF die THEN @ ELSE NULL]
            /\ UNCHANGED <<native, locker, term, js, did>>
       ELSE /\ Exec(t, h, nat, FnBody(nat.recv_sync_handler))
            /\ did' = [did EXCEPT ![t] = @ \cup {"js"}]
  /\ UNCHANGED <<gvars, wInstance, cfg, op, tw, arg, li>>

\* worker_load(w, name, source): source that does not compile sets
\* last_exception and returns 1 without running anything, else the script runs.
CallLoad(t) ==
  LET h == Handle(t)
      nat == native[h]
  IN
  /\ At(t, "call") /\ op[t] = "LoadScript"
  /\ nat.st = "live"
  /\ MayEnter(t, h)
  /\ IF ~Compiles(arg[t])
       THEN /\ native' = [native EXCEPT ![h].last_exception =
                            ExceptionString(Caught("compile", FileName, arg[t]))]
            /\ pc' = [pc EXCEPT ![t] = "geterr"]
            /\ UNCHANGED <<locker, term, js, crashed, ret, wMutex>>
       ELSE Exec(t, h, nat, ScriptBody(arg[t]))
  /\ UNCHANGED <<gvars, wInstance, cfg, op, tw, arg, li, did>>

\* worker_load_module(w, url): the isolate is entered and the module's source
\* is asked of the host, through getModuleSource(id, url) in Go.
CallLoadModule(t) ==
  LET h == Handle(t) IN
  /\ At(t, "call") /\ op[t] = "LoadModule"
  /\ native[h].st = "live"
  /\ MayEnter(t, h)
  /\ locker' = [locker EXCEPT ![h] = t]
  /\ pc' = [pc EXCEPT ![t] = "mod_lock"]
  /\ UNCHANGED <<gvars, wvars, native, term, crashed, op, tw, arg, li, js, ret, did>>

\* getModuleSource starts with getInstance(id): mutex.Lock().
ModLock(t) ==
  /\ At(t, "mod_lock")
  /\ mutex = NULL
  /\ mutex' = t
  /\ pc' = [pc EXCEPT ![t] = "mod"]
  /\ UNCHANGED <<nextID, once, v8inits, registry, instances, wvars, nvars,
                 crashed, op, tw, arg, li, js, ret, did>>

\* getModuleSource: getInstance returns registry[id] and unlocks, the host's
\* resolver is called, and an error it returns is a panic; else the source
\* goes back to the native loader.
GetModuleSource(t) ==
  LET h == Handle(t)
      i == Lookup(native[h].id)
      r == Resolve(arg[t])
  IN
  /\ At(t, "mod")
  /\ mutex' = Unlocked(t)
  /\ IF i = NULL \/ instances[i].getModuleSource = "nil" \/ r.err # NoErr
       THEN /\ crashed' = TRUE
            /\ pc' = [pc EXCEPT ![t] = "dead"]
            /\ did' = [did EXCEPT ![t] = @ \cup {"panic"}]
       ELSE /\ crashed' = crashed
            /\ pc' = [pc EXCEPT ![t] = "mod_run"]
            /\ did' = [did EXCEPT ![t] = @ \cup {"source"}]
  /\ UNCHANGED <<nextID, once, v8inits, registry, instances, wvars, nvars,
                 op, tw, arg, li, js, ret>>

\* The native loader compiles the module from the source it was given and
\* runs it: a module that does not compile sets last_exception and nothing
\* runs, a failure of the run is recorded as worker_load records a script's.
RunModule(t) ==
  LET h == Handle(t)
      src == Resolve(arg[t]).source
  IN
  /\ At(t, "mod_run")
  /\ IF ~Compiles(src)
       THEN /\ native' = [native EXCEPT ![h].last_exception =
                            ExceptionString(Caught("compile", NameOf(t), src))]
            /\ locker' = [locker EXCEPT ![h] = NULL]
            /\ pc' = [pc EXCEPT ![t] = "geterr"]
            /\ UNCHANGED <<term, js, crashed, ret, wMutex>>
       ELSE Exec(t, h, native[h], ScriptBody(src))
  /\ UNCHANGED <<gvars, wInstance, cfg, op, tw, arg, li, did>>

\* A looping script or callback is stopped by a termination request.
Interrupt(t) ==
  LET h == Handle(t) IN
  /\ At(t, "run")
  /\ term[h]
  /\ Finish(t, h, native[h], Outcome("term", Empty), FALSE)
  /\ UNCHANGED <<gvars, wInstance, cfg, op, tw, arg, li, did>>

\* Send and SendSync, the $send and $sendSync functions, call recvCb and
\* recvSyncCb in Go, which start with getInstance(id): mutex.Lock().
CbLock(t) ==
  /\ At(t, "cb_lock")
  /\ mutex = NULL
  /\ mutex' = t
  /\ pc' = [pc EXCEPT ![t] = "cb"]
  /\ UNCHANGED <<nextID, once, v8inits, registry, instances, wvars, nvars,
                 crashed, op, tw, arg, li, js, ret, did>>

\* recvCb: cb := getInstance(id).handleSend; if cb != nil { cb(msg) }.
\* recvSyncCb: without handleSendSync the answer is the fixed diagnostic,
\* else the callback's.  What the script gets back from the call.
HostAnswer(inst, k) ==
  IF k = "send" THEN Undefined
  ELSE IF inst.handleSendSync = "nil" THEN Str(MsgSyncNil)
  ELSE Str(HostResp)

\* The instance's callback for boundary function k.
HostCallback(inst, k) == IF k = "send" THEN inst.handleSend ELSE inst.handleSendSync

\* (mutant) the callback called without looking whether it is nil.
HostCalledAlways(inst, k) == TRUE

\* Whether the dispatch calls the host callback: if cb != nil.
HostCalled(inst, k) == HostCallback(inst, k) # "nil"

\* getInstance returns registry[id] and unlocks; the callback is dispatched;
\* the script goes on with the answer and ends, unless a termination request
\* stops it first.
Cb(t) ==
  LET h == Handle(t)
      i == Lookup(native[h].id)
  IN
  /\ At(t, "cb")
  /\ mutex' = Unlocked(t)
  /\ IF \/ i = NULL
          \/ (HostCalled(instances[i], js[t].k) /\ HostCallback(instances[i], js[t].k) = "nil")
       THEN \* nil dereference, or call of a nil func, in a cgo callback
            /\ crashed' = TRUE
            /\ pc' = [pc EXCEPT ![t] = "dead"]
            /\ UNCHANGED <<native, locker, term, js, ret, wMutex, did>>
       ELSE /\ did' = [did EXCEPT ![t] =
                        @ \cup {js[t].k}
                          \cup (IF HostCalled(instances[i], js[t].k) THEN {"host"} ELSE {})]
            /\ \/ Finish(t, h, native[h], Outcome("ok", HostAnswer(instances[i], js[t].k)), term[h])
               \/ /\ term[h]
                  /\ Finish(t, h, native[h], Outcome("term", Empty), FALSE)
  /\ UNCHANGED <<nextID, once, v8inits, registry, instances, wInstance, cfg,
                 op, tw, arg, li>>

\* (mutant) worker_last_exception that answers the empty string.
LastExceptionNone(nat) == ""

\* worker_last_exception(w): the worker_s's last_exception.
LastException(nat) == nat.last_exception

\* C.worker_last_exception(w.instance.worker) as an error value, and the
\* method returns it (Send's deferred Unlock).
GetError(t) ==
  LET h   == Handle(t)
      err == LastException(native[h])
  IN
  /\ At(t, "geterr")
  /\ native[h].st = "live"
  /\ \E die \in CopyDies(err) :
       /\ crashed' = die
       /\ pc' = [pc EXCEPT ![t] = IF die THEN "dead" ELSE "done"]
       /\ ret' = [ret EXCEPT ![t] = IF die THEN @ ELSE [val |-> "", err |-> CopyString(err)]]
       /\ wMutex' = [wMutex EXCEPT ![tw[t]] = IF ~die /\ op[t] = "Send" THEN NULL ELSE @]
  /\ UNCHANGED <<gvars, wInstance, cfg, nvars, op, tw, arg, li, js, did>>

\* (mutant) TerminateExecution that leaves no request.
RequestsNone(h) == {FALSE}

\* getError cut in two, for the threads that can see it half done: the
\* argument w.instance.worker is read and C.worker_last_exception is entered;
\* from here on getError and its caller use w no more, unless the caller is
\* Send, whose deferred Unlock does.
GetErrorEnter(t) ==
  /\ At(t, "geterr")
  /\ native[Handle(t)].st = "live"
  /\ pc' = [pc EXCEPT ![t] = "lasterr"]
  /\ UNCHANGED <<gvars, wvars, nvars, crashed, op, tw, arg, li, js, ret, did>>

\* C.worker_last_exception returns and the method returns the error.  On a
\* worker_s deleted meanwhile it has read freed memory: the process dies or
\* the error is whatever was found.
GetErrorLeave(t) ==
  LET h    == Handle(t)
      err  == LastException(native[h])
      gone == native[h].st = "released"
  IN
  /\ At(t, "lasterr")
  /\ \E die \in IF gone THEN {TRUE, FALSE} ELSE CopyDies(err) :
       /\ crashed' = die
       /\ pc' = [pc EXCEPT ![t] = IF die THEN "dead" ELSE "done"]
       /\ ret' = [ret EXCEPT ![t] =
                    IF die THEN @
                    ELSE [val |-> "", err |-> IF gone THEN "<garbage>" ELSE CopyString(err)]]
       /\ wMutex' = [wMutex EXCEPT ![tw[t]] = IF ~die /\ op[t] = "Send" THEN NULL ELSE @]
  /\ UNCHANGED <<gvars, wInstance, cfg, nvars, op, tw, arg, li, js, did>>

\* isolate->TerminateExecution(): the request is pending for JavaScript that
\* is running; with none running it may or may not stay pending for the next
\* run.
Requests(h) == IF locker[h] # NULL THEN {TRUE} ELSE {TRUE, term[h]}

\* Terminate, holding w.mutex: the native call only when w.instance is set;
\* the deferred Unlock.
Terminate(t) ==
  LET w == tw[t] IN
  /\ At(t, "term")
  /\ IF wInstance[w] = NULL
       THEN UNCHANGED term
       ELSE /\ native[Handle(t)].st = "live"
            /\ \E b \in Requests(Handle(t)) : term' = [term EXCEPT ![Handle(t)] = b]
  /\ wMutex' = [wMutex EXCEPT ![w] = NULL]
  /\ pc' = [pc EXCEPT ![t] = "done"]
  /\ UNCHANGED <<gvars, wInstance, cfg, native, locker, crashed, op, tw, arg, li, js, ret, did>>

\* ------------------------------------------------------------ Go: dispose
\* dispose is the body of the finalizer init sets on the Worker, and a method
\* code of the package can call; nothing in it looks whether it ran before.
\* It reads w.instance, which only init sets.
BeginDispose(t, w) ==
  /\ At(t, "idle")
  /\ wInstance[w] # NULL
  /\ pc' = [pc EXCEPT ![t] = "disp_lock"]
  /\ op' = [op EXCEPT ![t] = "dispose"]
  /\ tw' = [tw EXCEPT ![t] = w]
  /\ UNCHANGED <<gvars, wvars, nvars, crashed, arg, li, js, ret, did>>

\* The Worker is still held by the program: no call marked as the program's
\* last use of it is in progress, and its finalizer has not started.
Held(w) ==
  /\ ~\E u \in Threads : tw[u] = w /\ "last" \in did[u]
  /\ ~InCall(w, {"dispose"})
  /\ ~Disposed(w)

\* A LoadScript that is the program's last use of Worker w: no reference to
\* w is kept but the method's own.
BeginLast(t, w, a) ==
  /\ At(t, "idle")
  /\ Held(w)
  /\ ~InCall(w, Methods)
  /\ pc' = [pc EXCEPT ![t] = "lock"]
  /\ op' = [op EXCEPT ![t] = "LoadScript"]
  /\ tw' = [tw EXCEPT ![t] = w]
  /\ arg' = [arg EXCEPT ![t] = a]
  /\ did' = [did EXCEPT ![t] = {"last"}]
  /\ UNCHANGED <<gvars, wvars, nvars, crashed, li, js, ret>>

\* The garbage collector runs the finalizer init has set, w.dispose(), once
\* the Worker is unreachable: the program's last call on it has returned, or
\* is a LoadScript inside getError's native call, which uses w no more.
Finalize(t, w) ==
  /\ \E u \in Threads :
       /\ tw[u] = w /\ "last" \in did[u]
       /\ pc[u] \in {"lasterr", "done"}
  /\ ~InCall(w, {"dispose"})
  /\ ~Disposed(w)
  /\ BeginDispose(t, w)

\* mutex.Lock()
DisposeLock(t) ==
  /\ At(t, "disp_lock")
  /\ mutex = NULL
  /\ mutex' = t
  /\ pc' = [pc EXCEPT ![t] = "disp_del"]
  /\ UNCHANGED <<nextID, once, v8inits, registry, instances, wvars, nvars,
                 crashed, op, tw, arg, li, js, ret, did>>

\* (mutant) dispose that leaves the entry in the registry.
DeletedNothing(reg, id) == reg

\* delete(registry, id): the map without the key (no-op for an absent key).
Deleted(reg, id) == [k \in (DOMAIN reg) \ {id} |-> reg[k]]

\* delete(registry, w.instance.id); mutex.Unlock()
DisposeDelete(t) ==
  /\ At(t, "disp_del")
  /\ registry' = Deleted(registry, instances[wInstance[tw[t]]].id)
  /\ mutex' = Unlocked(t)
  /\ pc' = [pc EXCEPT ![t] = "disp_native"]
  /\ UNCHANGED <<nextID, once, v8inits, instances, wvars, nvars,
                 crashed, op, tw, arg, li, js, ret, did>>

\* C.worker_dispose(w.instance.worker): isolate->Dispose(); delete w.  It
\* aborts on an isolate a thread is inside of.  On a worker_s already deleted
\* it is a double free: the process dies or goes on.
DisposeNative(t) ==
  LET h == Handle(t) IN
  /\ At(t, "disp_native")
  /\ \E die \in IF native[h].st = "released" THEN {TRUE, FALSE}
                ELSE {locker[h] # NULL} :
        /\ native' = IF die THEN native ELSE [native EXCEPT ![h].st = "released"]
        /\ crashed' = die
        /\ pc' = [pc EXCEPT ![t] = IF die THEN "dead" ELSE "done"]
  /\ UNCHANGED <<gvars, wvars, locker, term, op, tw, arg, li, js, ret, did>>

\* A native call (worker_send, worker_send_sync, worker_load,
\* worker_last_exception, worker_terminate_execution) on a worker_s that
\* worker_dispose has deleted reads freed memory: the process dies, or the
\* call comes back with whatever it found and the method returns.
UseFreed(t) ==
  /\ \/ At(t, "call") \/ At(t, "geterr")
     \/ At(t, "term") /\ wInstance[tw[t]] # NULL
  /\ native[Handle(t)].st = "released"
  /\ \E die \in BOOLEAN :
        /\ crashed' = die
        /\ pc' = [pc EXCEPT ![t] = IF die THEN "dead" ELSE "done"]
        /\ ret' = [ret EXCEPT ![t] = [val |-> "<garbage>", err |-> "<garbage>"]]
        /\ wMutex' = [wMutex EXCEPT ![tw[t]] = IF ~die /\ @ = t THEN NULL ELSE @]
  /\ UNCHANGED <<gvars, wInstance, cfg, nvars, op, tw, arg, li, js, did>>

\* ------------------------------------------------------------ specification
\* Spec: any number of threads call Send, SendSync, Terminate and LoadScript
\* on any Worker, every Worker fully configured.
Init == Start([w \in Workers |-> CfgFull])

InitSteps(t) ==
  \/ Lock(t) \/ InitSkip(t) \/ InitLock(t) \/ InitRegister(t) \/ OnceDo(t)
  \/ V8Init(t) \/ InitNative(t)

Call(t) ==
  \/ \E w \in Workers : \E m \in {"Send", "SendSync", "Terminate"} : Begin(t, m, w, "")
  \/ \E w \in Workers : Begin(t, "LoadScript", w, SrcBenign)

Step(t) ==
  \/ InitSteps(t)
  \/ CallSend(t) \/ CallSendSync(t) \/ CallLoad(t)
  \/ GetError(t) \/ Terminate(t) \/ Return(t)

Next == \E t \in Threads : Call(t) \/ Step(t)

Spec == Init /\ [][Next]_vars

\* SpecDispose: Spec, and dispose run on any initialised Worker at any time.
CallD(t) == Call(t) \/ \E w \in Workers : BeginDispose(t, w)

StepD(t) ==
  \/ Step(t)
  \/ DisposeLock(t) \/ DisposeDelete(t) \/ DisposeNative(t) \/ UseFreed(t)

NextDispose == \E t \in Threads : CallD(t) \/ StepD(t)

SpecDispose == Init /\ [][NextDispose]_vars

\* SpecErr: calls that fail, made one after the other on each Worker: scripts
\* that do not compile, that throw, and $recv and $recvSync callbacks that
\* throw.
ErrSources == {SrcSyntaxErr, SrcThrow, SrcRecvThrow, SrcSyncThrow}

\* A call on Worker w has not returned yet.
Busy(w) == \E u \in Threads : tw[u] = w /\ pc[u] \notin {"idle", "done"}

CallErr(t) ==
  \/ \E w \in Workers : \E src \in ErrSources : ~Busy(w) /\ Begin(t, "LoadScript", w, src)
  \/ \E w \in Workers : \E m \in {"Send", "SendSync"} : ~Busy(w) /\ Begin(t, m, w, "")

StepErr(t) ==
  \/ InitSteps(t)
  \/ CallSend(t) \/ CallSendSync(t) \/ CallLoad(t)
  \/ GetError(t) \/ Return(t)

NextErr == \E t \in Threads : CallErr(t) \/ StepErr(t)

SpecErr == Init /\ [][NextErr]_vars

\* SpecConfig: Workers made without callbacks, whose program sets the
\* configuration fields after a method call on the Worker has returned.
InitConfig == Start([w \in Workers |-> CfgBare])

\* The program assigns the Worker's configuration fields, a call on the
\* Worker having returned and none being in progress.
SetConfig(w) ==
  /\ ~crashed
  /\ \E u \in Threads : tw[u] = w /\ pc[u] = "done"
  /\ ~Busy(w)
  /\ cfg[w] # CfgFull
  /\ cfg' = [cfg EXCEPT ![w] = CfgFull]
  /\ UNCHANGED <<gvars, wInstance, wMutex, nvars, crashed, tvars>>

CallConfig(t) ==
  \/ \E w \in Workers : \E m \in {"Send", "Terminate"} : ~Busy(w) /\ Begin(t, m, w, "")
  \/ \E w \in Workers : ~Busy(w) /\ Begin(t, "LoadScript", w, SrcSend)

StepConfig(t) ==
  \/ InitSteps(t)
  \/ CallSend(t) \/ CallLoad(t) \/ CbLock(t) \/ Cb(t)
  \/ GetError(t) \/ Terminate(t) \/ Return(t)

NextConfig ==
  \/ \E t \in Threads : CallConfig(t) \/ StepConfig(t)
  \/ \E w \in Workers : SetConfig(w)

SpecConfig == InitConfig /\ [][NextConfig]_vars

\* ------------------------------------------------------ package textwrap
\* Text is a sequence of characters; the characters that matter to Dedent are
\* the space, the tab and the newline, and "a" stands for any other.
MaxLen == 5
Chars  == {" ", "\t", "\n", "a"}
Texts  == UNION {[1..n -> Chars] : n \in 0..MaxLen}

\* strings.Split(text, "\n"): the pieces between the newlines, one more than
\* there are newlines.
RECURSIVE SplitFrom(_, _, _)
SplitFrom(text, k, line) ==
  IF k > Len(text) THEN <<line>>
  ELSE IF text[k] = "\n" THEN <<line>> \o SplitFrom(text, k + 1, <<>>)
  ELSE SplitFrom(text, k + 1, Append(line, text[k]))

Split(text) == SplitFrom(text, 1, <<>>)

\* strings.Join(lines, "\n")
RECURSIVE Join(_)
Join(lines) ==
  IF Len(lines) = 0 THEN <<>>
  ELSE IF Len(lines) = 1 THEN lines[1]
  ELSE lines[1] \o <<"\n">> \o Join(Tail(lines))

\* strings.HasPrefix(s, prefix)
HasPrefix(s, prefix) == Len(prefix) <= Len(s) /\ SubSeq(s, 1, Len(prefix)) = prefix

\* The inner loop over a line's characters: current, the spaces and tabs
\* read before the first other character.
RECURSIVE Current(_)
Current(line) ==
  IF line = <<>> \/ Head(line) \notin {" ", "\t"} THEN <<>>
  ELSE <<Head(line)>> \o Current(Tail(line))

\* Whether the inner loop reaches its else branch: the line has a character
\* that is neither space nor tab.
HasOther(line) == Len(Current(line)) < Len(line)

\* for j := len(current); j > 0; j--: the longest current[:j] that common
\* starts with, 0 when there is none.
RECURSIVE Found(_, _, _)
Found(common, current, j) ==
  IF j <= 0 THEN 0
  ELSE IF HasPrefix(common, SubSeq(current, 1, j)) THEN j
  ELSE Found(common, current, j - 1)

\* The first loop over the lines, from line k on: it ends with common, or
\* with the early return of text.
RECURSIVE CommonFrom(_, _, _, _)
CommonFrom(lines, k, common, firstLine) ==
  IF k > Len(lines) THEN [early |-> FALSE, common |-> common]
  ELSE LET line == lines[k]
           current == Current(line)
       IN  IF line = <<>> \/ ~HasOther(line)
             THEN CommonFrom(lines, k + 1, common, firstLine)
           ELSE IF firstLine
             THEN CommonFrom(lines, k + 1, current, FALSE)
           ELSE IF common = current \/ HasPrefix(current, common)
             THEN CommonFrom(lines, k + 1, common, FALSE)
           ELSE LET j == Found(common, current, Len(current)) IN
                IF j = 0 THEN [early |-> TRUE, common |-> common]
                ELSE CommonFrom(lines, k + 1, SubSeq(current, 1, j), FALSE)

\* Dedent(text): out is the string returned; panic is set when a slice
\* line[len(common):] is out of range, and nothing is returned.
Dedent(text) ==
  LET lines == Split(text)
      c     == CommonFrom(lines, 1, <<>>, TRUE)
      n     == Len(c.common)
  IN  IF c.early \/ c.common = <<>>
        THEN [panic |-> FALSE, out |-> text]
      ELSE IF \E idx \in 1..Len(lines) : lines[idx] # <<>> /\ Len(lines[idx]) < n
        THEN [panic |-> TRUE, out |-> <<>>]
      ELSE [panic |-> FALSE,
            out |-> Join([idx \in 1..Len(lines) |->
                            IF lines[idx] = <<>> THEN <<>>
                            ELSE SubSeq(lines[idx], n + 1, Len(lines[idx]))])]

\* TestDedent's input and the output it expects.
TestInput ==
  <<"\n", "\n", "\t", "\t", "f", "i", "r", "s", "t", " ", "l", "i", "n", "e", "\n",
    "\n", "\t", "\t", "\t", "s", "e", "c", "o", "n", "d", "\n",
    "\n", "\t", "t", "h", "i", "r", "d", "\n",
    "\n", "\t", "\t">>

TestExpected ==
  <<"\n", "\n", "\t", "f", "i", "r", "s", "t", " ", "l", "i", "n", "e", "\n",
    "\n", "\t", "\t", "s", "e", "c", "o", "n", "d", "\n",
    "\n", "t", "h", "i", "r", "d", "\n",
    "\n", "\t">>

\* SpecDedent: the first thread calls Dedent with a text of at most MaxLen
\* characters or with the test's input, the others with the empty text.
InitDedent ==
  \E text \in Texts \cup {TestInput} :
    /\ mutex = NULL
    /\ nextID = 0
    /\ once = "idle"
    /\ v8inits = 0
    /\ registry = <<>>
    /\ instances = <<>>
    /\ wInstance = [w \in Workers |-> NULL]
    /\ wMutex = [w \in Workers |-> NULL]
    /\ cfg = [w \in Workers |-> CfgBare]
    /\ native = [h \in IDs |-> NoNative]
    /\ locker = [h \in IDs |-> NULL]
    /\ term = [h \in IDs |-> FALSE]
    /\ crashed = FALSE
    /\ pc = [t \in Threads |-> "call"]
    /\ op = [t \in Threads |-> "Dedent"]
    /\ tw = [t \in Threads |-> NULL]
    /\ arg = [t \in Threads |-> IF t = 1 THEN text ELSE <<>>]
    /\ li = [t \in Threads |-> NULL]
    /\ js = [t \in Threads |-> NoCode]
    /\ ret = [t \in Threads |-> NoRet]
    /\ did = [t \in Threads |-> {}]

\* The call of Dedent returns, or panics.
CallDedent(t) ==
  LET r == Dedent(arg[t]) IN
  /\ At(t, "call") /\ op[t] = "Dedent"
  /\ crashed' = r.panic
  /\ pc' = [pc EXCEPT ![t] = IF r.panic THEN "dead" ELSE "done"]
  /\ ret' = [ret EXCEPT ![t] = IF r.panic THEN @ ELSE [val |-> r.out, err |-> NoErr]]
  /\ UNCHANGED <<gvars, wvars, nvars, op, tw, arg, li, js, did>>

\* The caller has read the result.
ReadDedent(t) ==
  /\ At(t, "done") /\ op[t] = "Dedent"
  /\ pc' = [pc EXCEPT ![t] = "read"]
  /\ UNCHANGED <<gvars, wvars, nvars, crashed, op, tw, arg, li, js, ret, did>>

NextDedent == \E t \in Threads : CallDedent(t) \/ ReadDedent(t)

SpecDedent == InitDedent /\ [][NextDedent]_vars

\* ------------------------------------------------------- package v8worker
\* SpecWorker: package v8worker, whose New(cb, syncCb) registers the worker
\* struct and creates the context as init does, and whose Load runs a script
\* as LoadScript does.  The first Instance is made with both callbacks, the
\* second with any of them nil; the scripts call $send and $sendSync.
InitWorker ==
  \E cb, syncCb \in {"set", "nil"} :
    Start([w \in Workers |->
             IF w = 1 THEN CfgFull
             ELSE [CfgBare EXCEPT !.HandleSend = cb, !.HandleSendSync = syncCb]])

\* recvCb: getWorker(id).cb(C.GoString(msg)); recvSyncCb:
\* C.CString(getWorker(id).syncCb(C.GoString(msg))).  getWorker unlocks on its
\* return; the callback is called whatever it is, and the call of a nil func
\* panics inside the cgo callback.
WorkerCb(t) ==
  LET h == Handle(t)
      i == Lookup(native[h].id)
  IN
  /\ At(t, "cb")
  /\ mutex' = Unlocked(t)
  /\ IF i = NULL \/ HostCallback(instances[i], js[t].k) = "nil"
       THEN /\ crashed' = TRUE
            /\ pc' = [pc EXCEPT ![t] = "dead"]
            /\ UNCHANGED <<native, locker, term, js, ret, wMutex, did>>
       ELSE /\ did' = [did EXCEPT ![t] = @ \cup {js[t].k, "host"}]
            /\ Finish(t, h, native[h],
                      Outcome("ok", IF js[t].k = "send" THEN Undefined ELSE Str(HostResp)),
                      term[h])
  /\ UNCHANGED <<nextID, once, v8inits, registry, instances, wInstance, cfg,
                 op, tw, arg, li>>

\* Load is called with a script that calls $send, one that calls $sendSync
\* and one that does not compile; the threads take the steps of New and Load.
NextWorker ==
  \E t \in Threads :
    \/ \E w \in Workers : \E src \in {SrcSend, SrcSendSync, SrcSyntaxErr} : BeginLoad(t, w, src)
    \/ InitSteps(t)
    \/ CallLoad(t)
    \/ CbLock(t) \/ WorkerCb(t)
    \/ GetError(t) \/ Return(t)

SpecWorker == InitWorker /\ [][NextWorker]_vars

\* ------------------------------------------------- the exception formatter
\* SpecFormat: ExceptionString applied to captured failures: an exception
\* that converts to a string or not, with or without stack trace, without
\* message or with one whose line is at most MaxLine and whose columns are at
\* most MaxCol.  The other threads format the failure of compiling "1+".
MaxLine == 2
MaxCol  == 3
TryCatches ==
  [exception : {"Error: x", "<empty>"}, stack_trace : {"", "Error: x\n    at f"},
   message : {NoMessage} \cup
             [resource : {FileName}, line : 1..MaxLine, sourceline : {SrcSyntaxErr, SrcThrow},
              start : 0..MaxCol, end : 0..MaxCol]]

InitFormat ==
  \E try_catch \in TryCatches :
    /\ mutex = NULL
    /\ nextID = 0
    /\ once = "idle"
    /\ v8inits = 0
    /\ registry = <<>>
    /\ instances = <<>>
    /\ wInstance = [w \in Workers |-> NULL]
    /\ wMutex = [w \in Workers |-> NULL]
    /\ cfg = [w \in Workers |-> CfgBare]
    /\ native = [h \in IDs |-> NoNative]
    /\ locker = [h \in IDs |-> NULL]
    /\ term = [h \in IDs |-> FALSE]
    /\ crashed = FALSE
    /\ pc = [t \in Threads |-> "call"]
    /\ op = [t \in Threads |-> "ExceptionString"]
    /\ tw = [t \in Threads |-> NULL]
    /\ arg = [t \in Threads |->
               IF t = 1 THEN try_catch ELSE Caught("compile", FileName, SrcSyntaxErr)]
    /\ li = [t \in Threads |-> NULL]
    /\ js = [t \in Threads |-> NoCode]
    /\ ret = [t \in Threads |-> NoRet]
    /\ did = [t \in Threads |-> {}]

\* ExceptionString returns its string.
CallFormat(t) ==
  /\ At(t, "call") /\ op[t] = "ExceptionString"
  /\ pc' = [pc EXCEPT ![t] = "done"]
  /\ ret' = [ret EXCEPT ![t] = [val |-> ExceptionString(arg[t]), err |-> NoErr]]
  /\ UNCHANGED <<gvars, wvars, nvars, crashed, op, tw, arg, li, js, did>>

NextFormat == \E t \in Threads : CallFormat(t)

SpecFormat == InitFormat /\ [][NextFormat]_vars

\* SpecFinal: dispose run by the garbage collector only, as the exported API
\* has it.  The program calls LoadScript and Send on the Workers it holds;
\* one LoadScript is its last use of a Worker.
FinalSources == {SrcSyntaxErr, SrcBenign, SrcSend}

CallFinal(t) ==
  \/ \E w \in Workers : \E src \in FinalSources : Held(w) /\ BeginLoad(t, w, src)
  \/ \E w \in Workers : Held(w) /\ BeginMsg(t, "Send", w)
  \/ \E w \in Workers : \E src \in FinalSources : BeginLast(t, w, src)
  \/ \E w \in Workers : Finalize(t, w)

StepFinal(t) ==
  \/ InitSteps(t)
  \/ CallSend(t) \/ CallLoad(t) \/ CbLock(t) \/ Cb(t)
  \/ GetErrorEnter(t) \/ GetErrorLeave(t) \/ Return(t)
  \/ DisposeLock(t) \/ DisposeDelete(t) \/ DisposeNative(t)

NextFinal == \E t \in Threads : CallFinal(t) \/ StepFinal(t)

SpecFinal == Init /\ [][NextFinal]_vars

\* SpecMsg: the message channel.  The first Worker has every callback set,
\* the others none; scripts that register callbacks and call the boundary
\* functions are loaded, LoadScript called as its contract asks; Send and
\* SendSync are called by any thread.
MsgSources == {SrcSend, SrcRecvOk, SrcSyncPong, SrcSyncNum, SrcSyncEcho}

InitMsg == Start([w \in Workers |-> IF w = 1 THEN CfgFull ELSE CfgBare])

CallMsg(t) ==
  \/ \E w \in Workers : \E src \in MsgSources : BeginLoad(t, w, src)
  \/ \E w \in Workers : \E m \in {"Send", "SendSync"} : BeginMsg(t, m, w)

StepMsg(t) ==
  \/ InitSteps(t)
  \/ CallSend(t) \/ CallSendSync(t) \/ CallLoad(t)
  \/ CbLock(t) \/ Cb(t)
  \/ GetError(t) \/ Return(t)

NextMsg == \E t \in Threads : CallMsg(t) \/ StepMsg(t)

SpecMsg == InitMsg /\ [][NextMsg]_vars

\* SpecModule: the four methods that call init, LoadModule with its resolver.
CallModule(t) ==
  \/ \E w \in Workers : \E m \in {"Send", "SendSync"} : Begin(t, m, w, "")
  \/ \E w \in Workers : Begin(t, "LoadScript", w, SrcBenign)
  \/ \E w \in Workers : \E url \in ModUrls : Begin(t, "LoadModule", w, url)

StepModule(t) ==
  \/ InitSteps(t)
  \/ CallSend(t) \/ CallSendSync(t) \/ CallLoad(t)
  \/ CallLoadModule(t) \/ ModLock(t) \/ GetModuleSource(t) \/ RunModule(t)
  \/ GetError(t) \/ Return(t)

NextModule == \E t \in Threads : CallModule(t) \/ StepModule(t)

SpecModule == InitMsg /\ [][NextModule]_vars

\* SpecCallbacks: the three callbacks from native code into Go, on two
\* instances at a time.  Scripts that call $send and $sendSync and a $recv
\* callback that calls $send are loaded, modules are loaded through the
\* resolver, Send is called; the loads are called as their contract asks.
NextCallbacks ==
  \E t \in Threads :
    \/ \E w \in Workers : \E src \in {SrcSend, SrcSendSync, SrcRecvSend} : BeginLoad(t, w, src)
    \/ \E w \in Workers : \E url \in ModUrls :
         /\ ~InCall(w, {"LoadScript", "LoadModule", "Send", "SendSync"})
         /\ Begin(t, "LoadModule", w, url)
    \/ \E w \in Workers : BeginMsg(t, "Send", w)
    \/ InitSteps(t)
    \/ CallSend(t) \/ CallLoad(t)
    \/ CallLoadModule(t) \/ ModLock(t) \/ GetModuleSource(t) \/ RunModule(t)
    \/ CbLock(t) \/ Cb(t)
    \/ GetError(t) \/ Return(t)

SpecCallbacks == InitMsg /\ [][NextCallbacks]_vars

\* SpecTerm: scripts and callbacks that loop, and Terminate called on a Worker
\* in which JavaScript runs.  A thread that can take a step of its method
\* takes it in the end (the Go scheduler); nothing makes a thread call.
TermSources == {SrcLoop, SrcBenign, SrcRecvLoop}

CallTerm(t) ==
  \/ \E w \in Workers : \E src \in TermSources : BeginLoad(t, w, src)
  \/ \E w \in Workers : BeginMsg(t, "Send", w)
  \/ \E w \in Workers : BeginTerminate(t, w)

StepTerm(t) ==
  \/ InitSteps(t)
  \/ CallSend(t) \/ CallLoad(t) \/ Interrupt(t)
  \/ GetError(t) \/ Terminate(t) \/ Return(t)

NextTerm == \E t \in Threads : CallTerm(t) \/ StepTerm(t)

SpecTerm == Init /\ [][NextTerm]_vars /\ \A t \in Threads : WF_vars(StepTerm(t))

\* ================================================================== claims
\* Positions inside a native call that was handed the Worker's handle.
InSend(t) == op[t] \in {"Send", "SendSync"} /\ pc[t] \in {"call", "run", "cb_lock", "cb"}

\* The instance with address id is registered / has its native context.
IsKey(id) == id \in DOMAIN registry
HasContext(id) ==
  /\ id \in DOMAIN instances
  /\ instances[id].worker # NULL
  /\ native[instances[id].worker].st = "live"

\* init of the instance is between registering it and worker_init's return.
MidInit(id) == \E t \in Threads : li[t] = id /\ pc[t] \in {"init_once", "v8_init", "init_native"}
\* a dispose of the instance is between its delete and worker_dispose's return.
MidDispose(id) ==
  \E t \in Threads : /\ op[t] = "dispose" /\ pc[t] = "disp_native"
                     /\ wInstance[tw[t]] = id

\* C1: however many threads run init concurrently, v8_init has run at most
\* once, and exactly once as soon as any thread is past once.Do.
C1_BootstrapOnce ==
  /\ v8inits <= 1
  /\ (\E t \in Threads : pc[t] = "init_native") => v8inits = 1
  /\ (\E w \in Workers : wInstance[w] # NULL) => v8inits = 1

\* C1 witness: two threads that ran init concurrently are both past once.Do,
\* about to allocate their native contexts, and v8_init has run once.
C1_Witness ==
  \E t, u \in Threads : t # u /\ pc[t] = "init_native" /\ pc[u] = "init_native"
                        /\ v8inits = 1

\* C2 as stated: in every state an id is a key of the registry iff its native
\* context is allocated and not released.
C2_KeyIffContext == \A id \in IDs : IsKey(id) <=> HasContext(id)

\* C2 amended: the equivalence holds in the states where no init of the
\* instance is between its registration and worker_init, and no dispose of it
\* between its delete and worker_dispose; a registered id without context is
\* one whose init is in progress, and a context without registered id is one
\* whose dispose is in progress.
C2_KeyIffContextQuiescent ==
  \A id \in IDs :
    /\ (~MidInit(id) /\ ~MidDispose(id)) => (IsKey(id) <=> HasContext(id))
    /\ (IsKey(id) /\ ~HasContext(id)) => MidInit(id)
    /\ (HasContext(id) /\ ~IsKey(id)) => MidDispose(id)

\* C2 witness: an instance initialised and registered beside one disposed.
C2_Witness ==
  \E a, b \in IDs : /\ IsKey(a) /\ HasContext(a) /\ ~MidInit(a)
                    /\ b \in DOMAIN instances /\ ~IsKey(b) /\ ~HasContext(b)
                    /\ ~MidDispose(b)

\* C3: an id that enters the registry was never given to an instance before
\* and is larger than every id given before, disposed instances included.
C3_IdsIncrease ==
  [][\A id \in DOMAIN registry' :
        id \notin DOMAIN registry =>
          /\ id \notin DOMAIN instances
          /\ \A old \in DOMAIN instances : instances[old].id < id
          /\ instances'[id].id = id]_vars

\* C3 witness: the second instance is registered after the first was disposed.
C3_Witness ==
  \E a, b \in IDs : /\ a < b /\ IsKey(b) /\ a \in DOMAIN instances /\ ~IsKey(a)
                    /\ native[a].st = "released"

\* C4: no two threads are inside worker_send / worker_send_sync of one Worker.
C4_SendExclusive ==
  \A t, u \in Threads : (t # u /\ InSend(t) /\ InSend(u)) => tw[t] # tw[u]

\* C4 witness: a thread inside worker_send while another called Send or
\* SendSync on the same Worker and waits for the mutex.
C4_Witness ==
  \E t, u \in Threads : /\ t # u /\ InSend(t) /\ tw[u] = tw[t]
                        /\ op[u] \in {"Send", "SendSync"} /\ pc[u] = "lock"

\* C10 as stated: once dispose has run on a Worker its id is not in the
\* registry, and no call made afterwards gets to a native call with the
\* released handle.
C10_NoUseAfterDispose ==
  \A t \in Threads :
    "late" \in did[t] =>
      /\ Lookup(instances[wInstance[tw[t]]].id) = NULL
      /\ pc[t] \notin {"call", "geterr"}
      /\ ~(pc[t] = "term" /\ op[t] = "Terminate")


\* The instance of the Worker thread t calls, once init has made it.
Inst(t) == instances[wInstance[tw[t]]]

\* Thread t is blocked in a LoadScript whose script loops; thread u has called
\* Terminate on the same Worker and not yet returned from it.
LoadLoops(t) == op[t] = "LoadScript" /\ pc[t] = "run"
SendLoops(t) == op[t] = "Send" /\ pc[t] = "run"
Terminating(u, t) == op[u] = "Terminate" /\ tw[u] = tw[t] /\ pc[u] \in {"lock", "term"}

\* What the terminated run leaves in last_exception.
TerminatedMsg == ExceptionString(Caught("term", FileName, SrcLoop))

\* C5: when a thread is blocked in a LoadScript whose script loops and another
\* has called Terminate on the Worker, Terminate returns and the LoadScript
\* returns an error; and every LoadScript of benign source returns nil, those
\* after a terminated one included.
C5_TerminateEndsLoad ==
  /\ \A t, u \in Threads :
       (LoadLoops(t) /\ Terminating(u, t)) ~> (op[u] = "Terminate" /\ pc[u] = "done")
  /\ \A t, u \in Threads :
       (LoadLoops(t) /\ Terminating(u, t))
         ~> (op[t] = "LoadScript" /\ pc[t] = "done" /\ ret[t].err \notin {NoErr, ""})
  /\ [](\A t \in Threads :
          (op[t] = "LoadScript" /\ arg[t] = SrcBenign /\ pc[t] = "done") => ret[t].err = NoErr)

\* C5 witness: a LoadScript of benign source has returned nil on a Worker
\* whose last LoadScript failure was a terminated run.
C5_Witness ==
  \E t \in Threads :
    /\ op[t] = "LoadScript" /\ arg[t] = SrcBenign /\ pc[t] = "done" /\ ret[t].err = NoErr
    /\ native[Handle(t)].last_exception = TerminatedMsg
    /\ native[Handle(t)].st = "live" /\ IsKey(Inst(t).id)

\* C6 as stated: when a thread is blocked in a Send whose callback does not
\* return and another has called Terminate on the Worker, Terminate gets past
\* w.mutex to the native call.
C6_TerminateReachesEngine ==
  \A t, u \in Threads :
    (SendLoops(t) /\ Terminating(u, t)) ~> (op[u] = "Terminate" /\ pc[u] \in {"term", "done"})

\* C7: a Send on an instance without $recv callback invokes no script function
\* and no host callback, and what it returns is the error "callback not
\* registered".
C7_SendUnregistered ==
  \A t \in Threads :
    (op[t] = "Send" /\ pc[t] \in {"geterr", "done", "run", "cb_lock", "cb"}
       /\ native[Handle(t)].recv = "") =>
      /\ did[t] = {}
      /\ pc[t] \in {"geterr", "done"}
      /\ pc[t] = "done" => ret[t] = [val |-> "", err |-> ErrNoRecv]

\* C7 witness: such a Send has returned its error, on an instance whose
\* $recvSync callback is registered.
C7_Witness ==
  \E t \in Threads :
    /\ op[t] = "Send" /\ pc[t] = "done" /\ ret[t].err = ErrNoRecv
    /\ native[Handle(t)].recv = "" /\ native[Handle(t)].recv_sync_handler # ""

\* What SendSync returns for the callback registered with $recvSync, inst
\* being the instance.
SyncExpected(fn, inst) ==
  CASE fn = ""       -> {MsgNoRecvSync}
    [] fn = "fnPong" -> {"pong"}
    [] fn = "fnNum"  -> {MsgNonString}
    [] fn = "fnEcho" -> IF inst.handleSendSync = "nil" THEN {MsgSyncNil} ELSE {HostResp}

\* C8: a SendSync that returns returns a nil error, and as its value the
\* string its callback returned, or the diagnostic for no callback, or the
\* diagnostic for a value that is not a string.
C8_SendSyncResult ==
  \A t \in Threads :
    (op[t] = "SendSync" /\ pc[t] = "done") =>
      /\ ret[t].err = NoErr
      /\ ret[t].val \in SyncExpected(native[Handle(t)].recv_sync_handler, Inst(t))

\* C8 witness: SendSync calls have returned "pong" on one Worker and the
\* diagnostic for a value that is not a string on another.
C8_Witness ==
  \E t, u \in Threads :
    /\ op[t] = "SendSync" /\ pc[t] = "done" /\ ret[t] = [val |-> "pong", err |-> NoErr]
    /\ op[u] = "SendSync" /\ pc[u] = "done" /\ ret[u] = [val |-> MsgNonString, err |-> NoErr]

C11_ReleasedOnce ==
  [][\A t \in Threads :
       (pc[t] = "disp_native" /\ pc'[t] # "disp_native")
         => native[Handle(t)].st = "live"]_vars

\* C20: a native context that is released has its id out of the registry, and
\* so has one that a dispose is about to release: delete comes first.
C20_RemovedBeforeReleased ==
  /\ \A i \in DOMAIN instances :
       (instances[i].worker # NULL /\ native[instances[i].worker].st = "released")
         => ~IsKey(instances[i].id)
  /\ \A t \in Threads : pc[t] = "disp_native" => ~IsKey(Inst(t).id)

\* C20 witness: a dispose has deleted the id and not yet released the context,
\* while another instance is registered.
C20_Witness ==
  \E t \in Threads :
    /\ pc[t] = "disp_native" /\ native[Handle(t)].st = "live" /\ ~IsKey(Inst(t).id)
    /\ \E other \in IDs : IsKey(other)

\* C12 as stated: no native context is released while a call on its instance
\* is inside a native function it has entered and not yet left.
C12_NoReleaseInCall ==
  \A t \in Threads :
    pc[t] \in {"run", "cb_lock", "cb", "lasterr"} => native[Handle(t)].st # "released"

\* The instances made for Worker w: the one it holds and those the inits
\* running on it have created.
Made(w) ==
  {li[t] : t \in {u \in Threads : tw[u] = w /\ li[u] # NULL}}
    \cup (IF wInstance[w] # NULL THEN {wInstance[w]} ELSE {})

\* C13: whatever the interleaving of the first calls of LoadScript,
\* LoadModule, Send and SendSync on a Worker, at most one instance is made for
\* it, with one id and one native context; instances exist only for Workers a
\* call has been made on, one each, and every call past init uses the
\* Worker's one instance.
C13_OneInstance ==
  /\ \A w \in Workers : Cardinality(Made(w)) <= 1
  /\ Cardinality(DOMAIN instances) = Cardinality({w \in Workers : Made(w) # {}})
  /\ nextID = Cardinality(DOMAIN instances)
  /\ DOMAIN registry = DOMAIN instances
  /\ Cardinality({h \in IDs : native[h].st # "none"})
       = Cardinality({w \in Workers : wInstance[w] # NULL})
  /\ \A w \in Workers : wInstance[w] # NULL => instances[wInstance[w]].worker = wInstance[w]
  /\ \A t \in Threads :
       pc[t] \in {"call", "mod_lock", "mod", "mod_run", "geterr"} => wInstance[tw[t]] # NULL

\* C13 witness: a LoadModule and another method called on the same Worker are
\* both past init, the one inside the native loader and the other about to
\* make its native call, and a single instance exists.
C13_Witness ==
  \E t, u \in Threads :
    /\ t # u /\ tw[t] = tw[u]
    /\ op[t] = "LoadModule" /\ pc[t] \in {"mod_lock", "mod"}
    /\ op[u] \in {"LoadScript", "Send", "SendSync"} /\ pc[u] = "call"
    /\ Cardinality(DOMAIN instances) = 1

\* C14: a LoadModule on an instance without getModuleSource never reaches the
\* native module loader, and it returns the error that says so.
C14_NoResolverNoLoad ==
  \A t \in Threads :
    (op[t] = "LoadModule" /\ pc[t] \notin {"idle", "lock", "init", "init_reg", "init_once", "v8_init", "init_native"}
       /\ Inst(t).getModuleSource = "nil")
      => /\ pc[t] = "done"
         /\ ret[t].err = ErrNoGetModule
         /\ "source" \notin did[t] /\ "panic" \notin did[t]

\* C14 witness: LoadModule has returned on a Worker configured without
\* GetModuleSource.
C14_Witness ==
  \E t \in Threads :
    /\ op[t] = "LoadModule" /\ pc[t] = "done"
    /\ cfg[tw[t]].GetModuleSource = "nil"
    /\ ret[t].err = ErrNoGetModule

\* C15 as stated: a LoadModule whose resolver returns an error does not bring
\* the process down: the call is never dead.
C15_ResolverErrorReturned ==
  \A t \in Threads :
    (op[t] = "LoadModule" /\ Resolve(arg[t]).err # NoErr) => pc[t] # "dead"

\* The diagnostic of the failure of thread t's call, from the call alone.
Diag(t) ==
  LET nat == native[Handle(t)] IN
  IF op[t] = "Send" /\ nat.recv = "" THEN ErrNoRecv
  ELSE IF op[t] = "LoadScript" /\ ~Compiles(arg[t])
    THEN ExceptionString(Caught("compile", NameOf(t), arg[t]))
  ELSE ExceptionString(Caught("throw", NameOf(t), SourceOf(t, nat)))

\* C16: when a call fails, the instance's last_exception becomes the
\* diagnostic of that call and nothing else; last_exception changes in no
\* other step; and the error a failed Send returns is its own diagnostic,
\* "callback not registered" when no $recv callback is registered, whatever
\* failed before.
C16_LastFailureOnly ==
  /\ [][\A t \in Threads :
          (pc[t] # "geterr" /\ pc'[t] = "geterr")
            => native'[Handle(t)].last_exception = Diag(t)]_vars
  /\ [][\A h \in IDs :
          native'[h].last_exception # native[h].last_exception
            => \E t \in Threads :
                 /\ tw[t] # NULL /\ wInstance[tw[t]] # NULL /\ Handle(t) = h
                 /\ pc[t] # "geterr" /\ pc'[t] = "geterr"]_vars
  /\ [][\A t \in Threads :
          (op[t] = "Send" /\ pc[t] = "geterr" /\ pc'[t] = "done")
            => ret'[t].err = Diag(t)]_vars

\* C16 witness: a Send without $recv callback has failed after a LoadScript
\* on the same Worker failed to compile: the earlier call has returned its
\* compile diagnostic, and the Send returns "callback not registered".
C16_Witness ==
  \E t, u \in Threads :
    /\ t # u /\ tw[t] = tw[u]
    /\ op[u] = "LoadScript" /\ pc[u] = "done"
    /\ ret[u].err = ExceptionString(Caught("compile", FileName, SrcSyntaxErr))
    /\ op[t] = "Send" /\ pc[t] = "done" /\ ret[t].err = ErrNoRecv
    /\ native[Handle(t)].last_exception = ErrNoRecv

\* C17 as stated: the configuration fields being changed only after a method
\* of the Worker has been called, every instance has the callbacks the
\* Worker was made with (none), and no host callback is ever dispatched.
C17_ConfigFrozen ==
  /\ \A i \in DOMAIN instances :
       /\ instances[i].getModuleSource = CfgBare.GetModuleSource
       /\ instances[i].handleSend = CfgBare.HandleSend
       /\ instances[i].handleSendSync = CfgBare.HandleSendSync
  /\ \A t \in Threads : "host" \notin did[t]

\* A blank line, in the two senses the word has: an empty line, or a line
\* with nothing but spaces and tabs.
Blank(line, sense) == IF sense = "empty" THEN line = <<>> ELSE ~HasOther(line)

\* The prefix C18 speaks of: the longest run of spaces and tabs that every
\* line that is not blank starts with (the start of the first such line's run).
RECURSIVE CommonOfAll(_, _, _, _)
CommonOfAll(lines, sense, current, j) ==
  IF j <= 0 THEN <<>>
  ELSE IF \A idx \in 1..Len(lines) :
            ~Blank(lines[idx], sense)
              => HasPrefix(Current(lines[idx]), SubSeq(current, 1, j))
    THEN SubSeq(current, 1, j)
  ELSE CommonOfAll(lines, sense, current, j - 1)

\* The text C18 describes: every line that is not blank without that prefix,
\* the blank lines as they are, and the text itself when the prefix is empty.
Dedented(text, sense) ==
  LET lines == Split(text)
      full  == {idx \in 1..Len(lines) : ~Blank(lines[idx], sense)}
      first == IF full = {} THEN <<>>
               ELSE Current(lines[CHOOSE idx \in full : \A o \in full : idx <= o])
      common == CommonOfAll(lines, sense, first, Len(first))
  IN  IF common = <<>> THEN text
      ELSE Join([idx \in 1..Len(lines) |->
                   IF Blank(lines[idx], sense) THEN lines[idx]
                   ELSE SubSeq(lines[idx], Len(common) + 1, Len(lines[idx]))])

\* C18 as stated: Dedent returns the text with the leading spaces and tabs
\* common to all lines removed from each of them, blank lines taking no part
\* and staying as they are, and the text itself when there is no such common
\* prefix; this in one sense of "blank" or the other.
C18_DedentCommon ==
  \A t \in Threads :
    op[t] = "Dedent" =>
      /\ pc[t] # "dead"
      /\ pc[t] \in {"done", "read"}
           => ret[t].val \in {Dedented(arg[t], "empty"), Dedented(arg[t], "space")}

\* The test's input gives the output the test expects.
TestDedent ==
  \A t \in Threads :
    (op[t] = "Dedent" /\ arg[t] = TestInput /\ pc[t] \in {"done", "read"})
      => ret[t].val = TestExpected

\* C19 as stated: a thread inside a native call on an instance made by
\* LoadScript, LoadModule, Send or SendSync holds the Worker's mutex, and a
\* thread about to signal termination does not.
C19_NativeUnderMutex ==
  \A t \in Threads :
    /\ (op[t] \in {"LoadScript", "LoadModule", "Send", "SendSync"}
          /\ pc[t] \in {"run", "cb_lock", "cb"}) => wMutex[tw[t]] = t
    /\ (op[t] = "Terminate" /\ pc[t] = "term") => wMutex[tw[t]] # t

\* C21: a thread leaves once.Do for worker_init only when v8_init has
\* returned, whoever ran it; so every native context that exists was
\* allocated after the bootstrap, and none is allocated while it runs.
C21_AllocatedAfterBootstrap ==
  /\ \A t \in Threads : pc[t] = "init_native" => (once = "done" /\ v8inits = 1)
  /\ \A h \in IDs : native[h].st # "none" => (once = "done" /\ v8inits = 1)
  /\ once = "running" => \A h \in IDs : native[h].st = "none"

\* C21 witness: two threads are in first calls at once, both having created
\* their instances; one has allocated its native context and the other is
\* about to, after the one bootstrap.
C21_Witness ==
  \E t, u \in Threads :
    /\ t # u /\ li[t] # NULL /\ li[u] # NULL
    /\ pc[t] = "init_native"
    /\ native[li[u]].st = "live"
    /\ v8inits = 1

\* C22: the registry lock is held only by a thread that stands between the
\* Lock and the Unlock around a map insert (init), lookup (getInstance) or
\* delete (dispose); a thread inside or about to make a native call (v8_init,
\* worker_init, worker_dispose, load, send, terminate, last_exception) does
\* not hold it, nor does a thread that runs JavaScript or waits for the lock.
C22_RegistryLockShort ==
  /\ mutex # NULL => pc[mutex] \in {"init_reg", "cb", "mod", "disp_del"}
  /\ \A t \in Threads :
       pc[t] \in {"init_once", "v8_init", "init_native", "call", "run", "cb_lock",
                  "geterr", "lasterr", "term", "disp_native"} => mutex # t

\* C22 witness: one thread holds the registry lock for its map operation
\* while another is inside a native call or about to make one.
C22_Witness ==
  \E t, u \in Threads :
    /\ mutex = t /\ pc[t] \in {"init_reg", "cb", "disp_del"}
    /\ pc[u] \in {"v8_init", "init_native", "disp_native", "lasterr", "cb_lock"}

\* C23: a LoadScript that has returned has returned an error exactly when its
\* source does not compile or its run throws; and the step in which a source
\* fails to compile leaves the callbacks registered with $recv and $recvSync
\* as they were.
C23_LoadScriptErrors ==
  /\ [](\A t \in Threads :
          (op[t] = "LoadScript" /\ pc[t] = "done")
            => (ret[t].err # NoErr
                  <=> (~Compiles(arg[t]) \/ ScriptBody(arg[t]).k = "throw")))
  /\ [][\A t \in Threads :
          (op[t] = "LoadScript" /\ pc[t] = "call" /\ pc'[t] # "call" /\ ~Compiles(arg[t]))
            => /\ native'[Handle(t)].recv = native[Handle(t)].recv
               /\ native'[Handle(t)].recv_sync_handler = native[Handle(t)].recv_sync_handler
               /\ pc'[t] = "geterr"]_vars

\* C23 witness: a LoadScript whose source does not compile has returned its
\* error on an instance that has a $recv callback registered by an earlier
\* script.
C23_Witness ==
  \E t \in Threads :
    /\ op[t] = "LoadScript" /\ pc[t] = "done" /\ arg[t] = SrcSyntaxErr
    /\ ret[t].err # NoErr
    /\ native[Handle(t)].recv = "fnThrow"

\* C24: the callbacks registered with $recv and $recvSync change only in the
\* step of a LoadScript whose script registers one, and then to the function
\* it registers: they stay across every other LoadScript, Send and SendSync.
\* A Send on an instance with a $recv callback invokes it.
C24_RegistrationPersists ==
  /\ [][\A h \in IDs :
          \A k \in {"recv", "recvSync"} :
            LET old == IF k = "recv" THEN native[h].recv ELSE native[h].recv_sync_handler
                new == IF k = "recv" THEN native'[h].recv ELSE native'[h].recv_sync_handler
            IN  new # old
                  => \E t \in Threads :
                       /\ tw[t] # NULL /\ wInstance[tw[t]] # NULL /\ Handle(t) = h
                       /\ op[t] = "LoadScript" /\ pc[t] = "call" /\ pc'[t] # "call"
                       /\ ScriptBody(arg[t]) = Code(k, new)]_vars
  /\ [][\A t \in Threads :
          (op[t] = "Send" /\ pc[t] = "call" /\ pc'[t] # "call"
             /\ native[Handle(t)].recv # "")
            => ("js" \in did'[t] /\ pc'[t] # "geterr")]_vars

\* C24 witness: a Send has invoked the $recv callback and returned nil on an
\* instance on which another LoadScript has registered a $recvSync callback.
C24_Witness ==
  \E t \in Threads :
    /\ op[t] = "Send" /\ pc[t] = "done" /\ "js" \in did[t] /\ ret[t].err = NoErr
    /\ native[Handle(t)].recv = "fnOk"
    /\ native[Handle(t)].recv_sync_handler # ""

\* C25: no step of a Terminate call changes the registry, the instances
\* (their ids, callbacks and native handles), the Worker's instance or a
\* native context; on a Worker without instance it leaves no termination
\* request either.  A Terminate that has returned has released the Worker's
\* mutex, so a later call can go on.
C25_TerminateFrame ==
  /\ [][\A t \in Threads :
          (op[t] = "Terminate" /\ pc'[t] # pc[t])
            => /\ registry' = registry /\ instances' = instances /\ nextID' = nextID
               /\ wInstance' = wInstance /\ native' = native
               /\ wInstance[tw[t]] = NULL => term' = term]_vars
  /\ [](\A t \in Threads :
          (op[t] = "Terminate" /\ pc[t] = "done") => wMutex[tw[t]] # t)

\* C25 witness: one Terminate has returned on a Worker that has no instance,
\* and another on a Worker that has one, its request left with the engine.
C25_Witness ==
  \E t, u \in Threads :
    /\ op[t] = "Terminate" /\ pc[t] = "done" /\ wInstance[tw[t]] = NULL
    /\ op[u] = "Terminate" /\ pc[u] = "done" /\ wInstance[tw[u]] # NULL
    /\ term[Handle(u)]

\* n times the character c, written from the right.
RECURSIVE Fill(_, _)
Fill(c, n) == IF n <= 0 THEN "" ELSE Fill(c, n - 1) \o c

\* The string shown for an exception or trace: its text, or the placeholder
\* when it does not convert to a string.
Shown(text) == IF text = "<empty>" THEN "<v8worker: string conversion failed>" ELSE text

\* The lines C26 lists for a captured failure, in order.
FormatLines(try_catch) ==
  LET m == try_catch.message IN
  IF m = NoMessage THEN <<Shown(try_catch.exception)>>
  ELSE <<m.resource \o ":" \o ToString(m.line),
         m.sourceline,
         Fill(" ", m.start) \o Fill("^", m.end - m.start),
         IF try_catch.stack_trace # "" THEN try_catch.stack_trace
         ELSE Shown(try_catch.exception)>>

\* The lines, each ended by a newline.
RECURSIVE Ended(_)
Ended(lines) == IF lines = <<>> THEN "" ELSE Head(lines) \o "\n" \o Ended(Tail(lines))

\* C26: what ExceptionString returns is determined by the captured failure:
\* with a message, the line "<resource>:<line>", the source line, a line of
\* start spaces and end - start carets, and the stack trace or, without one,
\* the exception; without message the exception alone.  For "1+" loaded as
\* "test.js" it starts with "test.js:1" and its third line is the caret
\* marker.
C26_ExceptionFormat ==
  \A t \in Threads :
    (op[t] = "ExceptionString" /\ pc[t] = "done") =>
      /\ ret[t].val = Ended(FormatLines(arg[t]))
      /\ arg[t].message # NoMessage
           => Len(FormatLines(arg[t])[3])
                = arg[t].message.start
                  + (IF arg[t].message.end > arg[t].message.start
                       THEN arg[t].message.end - arg[t].message.start ELSE 0)
      /\ arg[t] = Caught("compile", FileName, SrcSyntaxErr)
           => ret[t].val = "test.js:1\n1+\n  ^\nSyntaxError: Unexpected end of input\n"

\* C26 witness: the formatter has returned for a failure with a message and a
\* stack trace, its carets spanning two columns, and for the failure of
\* compiling "1+".
C26_Witness ==
  \E t, u \in Threads :
    /\ op[t] = "ExceptionString" /\ pc[t] = "done"
    /\ arg[t].message # NoMessage /\ arg[t].stack_trace # ""
    /\ arg[t].message.start = 1 /\ arg[t].message.end = 3
    /\ op[u] = "ExceptionString" /\ pc[u] = "done"
    /\ arg[u] = Caught("compile", FileName, SrcSyntaxErr)

\* C27 as stated: a SendSync whose $recvSync callback was called comes back
\* with a string whatever the callback did, a throw or an interruption by
\* Terminate included: the call never dies in the binding.
C27_SendSyncAnswers ==
  \A t \in Threads :
    (op[t] = "SendSync" /\ "js" \in did[t]) => pc[t] # "dead"

\* C28 as stated: in package v8worker, when the Instance was made with a nil
\* Callback or a nil SyncCallback, a script's $send or $sendSync does not bring
\* the host down: the Load that runs the script never dies in the dispatch.
C28_NilCallbackHarmless ==
  \A t \in Threads :
    (/\ op[t] = "LoadScript" /\ js[t].k \in {"send", "sendSync"}
     /\ wInstance[tw[t]] # NULL
     /\ HostCallback(Inst(t), js[t].k) = "nil") => pc[t] # "dead"

\* C29 as stated: every return of LoadModule and LoadScript has released the
\* Worker's mutex, the return of LoadModule's missing-resolver error included:
\* a load that has returned does not hold w.mutex, without which no later
\* call on the Worker can take it.
C29_LoadReleasesMutex ==
  \A t \in Threads :
    (op[t] \in {"LoadModule", "LoadScript"} /\ pc[t] = "done") => wMutex[tw[t]] # t

\* Thread t is in one of the Go callbacks, past getInstance's Lock: recvCb or
\* recvSyncCb ("cb"), getModuleSource ("mod").
InCallback(t) == pc[t] \in {"cb", "mod"}

\* C30: whenever a callback from native code runs for the call in progress on
\* a Worker's instance, the id it was given is a key of the registry, the
\* entry is that Worker's instance, and the callbacks held there are the ones
\* the Worker was configured with: never another Worker's, never missing.
C30_CallbackFindsOwn ==
  \A t \in Threads :
    InCallback(t) =>
      LET w == tw[t]
          i == Lookup(native[Handle(t)].id)
      IN
      /\ i # NULL
      /\ i = wInstance[w]
      /\ \A u \in Workers : (u # w /\ wInstance[u] # NULL) => wInstance[u] # i
      /\ instances[i].handleSend = cfg[w].HandleSend
      /\ instances[i].handleSendSync = cfg[w].HandleSendSync
      /\ instances[i].getModuleSource = cfg[w].GetModuleSource

\* C30 witness: two instances are live, made by Workers with different
\* callbacks, and two threads are in callbacks at once: one in getModuleSource
\* for one instance, reading the registry, and one in recvCb for the other,
\* about to take the registry lock.
C30_Witness ==
  \E t, u \in Threads :
    /\ t # u /\ tw[t] # tw[u]
    /\ pc[t] = "cb_lock" /\ js[t].k = "send" /\ pc[u] = "mod"
    /\ cfg[tw[t]] # cfg[tw[u]]
    /\ native[Handle(t)].st = "live" /\ native[Handle(u)].st = "live"
    /\ Handle(t) # Handle(u)

\* Thread t waits in w.mutex.Lock() for a mutex that no call in progress
\* holds: its holder has returned, or itself waits for the same mutex.
Stuck(t) ==
  LET u == wMutex[tw[t]] IN
  /\ pc[t] = "lock" /\ u # NULL
  /\ pc[u] \in {"idle", "lock", "done"}

\* C31 as stated: no thread waits for a Worker's mutex while it holds the
\* registry lock, and no interleaving of the methods reaches a deadlock: a
\* thread that waits for a Worker's mutex waits for a call in progress, which
\* releases the mutex on its return.
C31_NoDeadlock ==
  /\ mutex # NULL => pc[mutex] # "lock"
  /\ \A t \in Threads : ~Stuck(t)

\* The prefix Dedent's second loop removes from the lines of text: the common
\* it has computed, empty when it returns the text as it is.
Removed(text) ==
  LET c == CommonFrom(Split(text), 1, <<>>, TRUE) IN
  IF c.early THEN <<>> ELSE c.common

\* C32 as stated: a call of Dedent returns a string for every text: for every
\* line that is not empty, lines of spaces and tabs included, the computed
\* common prefix is no longer than the line and the line starts with it, so
\* the slice line[len(common):] is in range and the call does not panic.
C32_DedentInRange ==
  \A t \in Threads :
    (op[t] = "Dedent" /\ pc[t] # "call") =>
      /\ \A idx \in 1..Len(Split(arg[t])) :
           LET line == Split(arg[t])[idx] IN
           line # <<>> =>
             /\ Len(Removed(arg[t])) <= Len(line)
             /\ HasPrefix(line, Removed(arg[t]))
      /\ pc[t] # "dead"


=============================================================================
